---- MODULE Spec2Model ----
(***************************************************************************)
(* The rate-limited API access layer of TORN-trainer:                      *)
(*   src/src/utils.py    TokenBucketLimiter, small_jitter, safe_sleep      *)
(*   src/src/api.py      TornClient._request, _log_api, _redact_query      *)
(*   src/src/state/db.py mark_key_disabled, is_key_disabled, log_action    *)
(*                                                                         *)
(* The program runs on one asyncio event loop, so a step of the model is   *)
(* the code a task runs between two suspension points (await).             *)
(*                                                                         *)
(* Time.  The clock has a resolution of one tick: now() returns a whole    *)
(* number of ticks.  A sleep of d seconds that starts when the clock reads *)
(* n ends when it reads at least n + floor(d), so durations are rounded    *)
(* down to whole ticks and a sleep shorter than a tick may end before the  *)
(* clock moves.  One tick is 30 seconds (TicksPerMinute = 2).  Tokens are  *)
(* fractional in the code; the model keeps them in units of 1/TokenUnit    *)
(* token.                                                                  *)
(***************************************************************************)
EXTENDS Integers, Sequences, FiniteSets, TLC

Procs == {"t1", "t2"}

None == "None"

\* Units of the token count per token (self.tokens is a float).
TokenUnit == 2

\* Ticks per minute (refill_rate = capacity / 60.0 tokens per second).
TicksPerMinute == 2

\* delay = 0.05 seconds, less than a tick.
DelayFloor == 0

\* The smallest positive refill rate of the model, in units per tick
\* (the code clamps refill_rate_per_sec to at least 0.001).
MinRefill == 1

\* max_attempts = 5
MaxAttempts == 5

\* base_backoff = 1.0 second
BaseBackoff == 1

\* Backoff sleeps are kept in hundredths of a second.
BackoffUnit == 100

\* small_jitter's default jitter_fraction, 0.15, in percent
DefaultJitter == 15

\* if self._auth_failures >= 3
AuthThreshold == 3

\* capacity = min(100, max(1, max_requests_per_min))
CapacityCeiling == 100

\* {"raw": text[:500]}
RawLimit == 500

\* Bounds of the model.
MaxTime == 5
MaxStart == 2
MaxClientTime == 2
MaxAcquires == 3
MaxWait == 8

\* Constructor arguments of TokenBucketLimiter tried by the limiter
\* specification; values below the clamps are included.
Capacities == {0, 1, 2}
RefillRates == {0, 1, 2}
MinSpacings == {-1, 0, 2}
JitterPercents == {0, 15, 50}

VARIABLES
    clock,          \* MonotonicClock.now(), in ticks
    limiter,        \* the TokenBucketLimiter's fields
    lock,           \* holder of limiter._lock, or None
    waiters,        \* tasks queued on limiter._lock, first in first out
    pc,             \* where each task is suspended
    op,             \* the operation each task is running
    wake_at,        \* the tick at which a task's sleep may end
    nacquire,       \* acquire() calls made directly on the limiter
    grants_odd,     \* whether the limiter has issued an odd number of grants
    last_grant,     \* time of the latest grant, -1 before the first
    window,         \* history: the grants issued since an observer began to count
    api_key,        \* TornClient.api_key
    user_id,        \* TornClient.user_id
    auth_failures,  \* TornClient._auth_failures
    keys,           \* the store's table keys: id -> row or NoRow
    call,           \* each task's logical call: _request's locals and what it did
    nauth_status,   \* 401 and 403 responses the client has received
    nauth_payload,  \* error payloads with an auth code the client has received
    nmarks,         \* times the client has called mark_key_disabled
    streak401,      \* the latest consecutive calls that each ended in a 401
    closed,         \* whether aclose() has closed self._client
    trainer         \* one run of Trainer.decide_and_recommend: what it fetched, what it returned

limvars == <<limiter, lock, waiters, wake_at, grants_odd, last_grant, window>>

clientvars == <<api_key, user_id, auth_failures, keys, nauth_status, nauth_payload,
                nmarks, streak401, closed, trainer>>

vars == <<clock, limiter, lock, waiters, pc, op, wake_at, nacquire, grants_odd,
          last_grant, window, api_key, user_id, auth_failures, keys, call,
          nauth_status, nauth_payload, nmarks, streak401, closed, trainer>>

Max(a, b) == IF a >= b THEN a ELSE b

Min(a, b) == IF a <= b THEN a ELSE b

(***************************************************************************)
(* TokenBucketLimiter                                                      *)
(***************************************************************************)

\* An __init__ that keeps the refill rate it is given.
NewLimiterUnclamped(capacity, refill_rate, min_spacing, jitter, now) ==
    [capacity      |-> Max(1, capacity),
     tokens        |-> Max(1, capacity) * TokenUnit,
     refill_rate   |-> refill_rate,
     min_spacing   |-> Max(0, min_spacing),
     jitter        |-> jitter,
     last_refill   |-> now,
     last_acquire  |-> 0]

\* __init__: the clamps, a full bucket, _last_refill = now, _last_acquire = 0.
NewLimiter(capacity, refill_rate, min_spacing, jitter, now) ==
    [capacity      |-> Max(1, capacity),
     tokens        |-> Max(1, capacity) * TokenUnit,
     refill_rate   |-> Max(MinRefill, refill_rate),
     min_spacing   |-> Max(0, min_spacing),
     jitter        |-> jitter,
     last_refill   |-> now,
     last_acquire  |-> 0]

\* A _refill that adds the elapsed tokens without the min(capacity, ...).
RefillUncapped(l, now) ==
    LET elapsed == now - l.last_refill IN
    IF elapsed <= 0 THEN l
    ELSE [l EXCEPT !.tokens = l.tokens + elapsed * l.refill_rate, !.last_refill = now]

\* _refill
Refill(l, now) ==
    LET elapsed == now - l.last_refill IN
    IF elapsed <= 0 THEN l
    ELSE [l EXCEPT !.tokens = Min(l.capacity * TokenUnit,
                                  l.tokens + elapsed * l.refill_rate),
                   !.last_refill = now]

\* spacing_needed = self.min_spacing - (now - self._last_acquire)
SpacingNeeded(l, now) == l.min_spacing - (now - l.last_acquire)

\* A grant condition that tests the tokens only.
CanGrantIgnoringSpacing(l, now) == l.tokens >= TokenUnit

\* if self.tokens >= 1.0 and spacing_needed <= 0
CanGrant(l, now) == l.tokens >= TokenUnit /\ SpacingNeeded(l, now) <= 0

\* A free debit: the grant sets the last-grant time and takes no token.
DebitNothing(l, now) == [l EXCEPT !.last_acquire = now]

\* self.tokens -= 1.0; self._last_acquire = self._clock.now()
Debit(l, now) == [l EXCEPT !.tokens = l.tokens - TokenUnit, !.last_acquire = now]

\* small_jitter: the values max(0.0, base + uniform(-delta, delta)) with
\* delta = base * jitter_fraction, rounded down to whole units.
SmallJitter(base, percent) ==
    LET lo == (base * (100 - percent)) \div 100
        hi == (base * (100 + percent)) \div 100
    IN  { Max(0, d) : d \in Min(lo, hi) .. Max(lo, hi) }

\* delay = 0.05; if spacing_needed > 0: delay = max(delay, small_jitter(...))
Delays(l, now) ==
    IF SpacingNeeded(l, now) > 0
    THEN { Max(DelayFloor, d) : d \in SmallJitter(SpacingNeeded(l, now), l.jitter) }
    ELSE { DelayFloor }

\* Nobody counts the grants.
NoWindow == [open |-> FALSE, start |-> 0, grants |-> 0]

\* What the task does once acquire() has returned: a direct caller is done;
\* _request goes on to self._client.get(...) and suspends in it.
AfterGrant(p, o, calls) ==
    IF o = "_request"
    THEN /\ pc' = [pc EXCEPT ![p] = "awaiting"]
         /\ op' = [op EXCEPT ![p] = o]
         /\ call' = [calls EXCEPT ![p].exchanges = @ + 1]
    ELSE /\ pc' = [pc EXCEPT ![p] = "idle"]
         /\ op' = [op EXCEPT ![p] = None]
         /\ call' = calls

\* One pass of the loop of acquire(), run by the task holding the lock:
\* refill, then either debit and leave the lock, or sleep inside it.
LoopIteration(p, o, calls) ==
    LET l == Refill(limiter, clock) IN
    IF CanGrant(l, clock)
    THEN /\ limiter' = Debit(l, clock)
         /\ lock' = None
         /\ grants_odd' = ~grants_odd
         /\ last_grant' = clock
         /\ window' = IF window.open THEN [window EXCEPT !.grants = @ + 1] ELSE window
         /\ wake_at' = [wake_at EXCEPT ![p] = 0]
         /\ AfterGrant(p, o, calls)
    ELSE /\ limiter' = l
         /\ lock' = p
         /\ \E d \in Delays(l, clock) : wake_at' = [wake_at EXCEPT ![p] = clock + d]
         /\ pc' = [pc EXCEPT ![p] = "limiter_sleep"]
         /\ op' = [op EXCEPT ![p] = o]
         /\ call' = calls
         /\ UNCHANGED <<grants_odd, last_grant, window>>

\* An acquire() without the async with self._lock: every caller runs the
\* loop at once.
EnterAcquireUnlocked(p, o, calls) ==
    /\ LoopIteration(p, o, calls)
    /\ UNCHANGED waiters

\* async with self._lock: the task takes a free lock that nobody waits for
\* without suspending, otherwise it queues.
EnterAcquire(p, o, calls) ==
    IF lock = None /\ waiters = <<>>
    THEN /\ LoopIteration(p, o, calls)
         /\ UNCHANGED waiters
    ELSE /\ waiters' = Append(waiters, p)
         /\ pc' = [pc EXCEPT ![p] = "lock_wait"]
         /\ op' = [op EXCEPT ![p] = o]
         /\ call' = calls
         /\ wake_at' = [wake_at EXCEPT ![p] = 0]
         /\ UNCHANGED <<limiter, lock, grants_odd, last_grant, window>>

\* A task calls limiter.acquire() directly.
CallAcquire(p) ==
    /\ pc[p] = "idle"
    /\ nacquire < MaxAcquires
    /\ nacquire' = nacquire + 1
    /\ EnterAcquire(p, "acquire", call)
    /\ UNCHANGED <<clock, clientvars>>

\* The lock is free and the task is the first waiter: it takes the lock.
LockGranted(p) ==
    /\ pc[p] = "lock_wait"
    /\ lock = None
    /\ waiters # <<>>
    /\ Head(waiters) = p
    /\ waiters' = Tail(waiters)
    /\ LoopIteration(p, op[p], call)
    /\ UNCHANGED <<clock, nacquire, clientvars>>

\* await safe_sleep(delay) ends; the task still holds the lock.
LimiterWake(p) ==
    /\ pc[p] = "limiter_sleep"
    /\ clock >= wake_at[p]
    /\ LoopIteration(p, op[p], call)
    /\ UNCHANGED <<clock, waiters, nacquire, clientvars>>

\* Time passes.
TickTo(horizon) ==
    /\ clock < horizon
    /\ clock' = clock + 1
    /\ UNCHANGED <<limvars, pc, op, nacquire, call, clientvars>>

Tick == TickTo(MaxTime)

ClientTick == TickTo(MaxClientTime)

(***************************************************************************)
(* Strings are sequences of characters.                                    *)
(***************************************************************************)

\* TORN_BASE = "https://api.torn.com"
TORN_BASE == <<"h","t","t","p","s",":","/","/","a","p","i",".","t","o","r","n",".","c","o","m">>

KeyEq == <<"k","e","y","=">>

Redacted == <<"R","E","D","A","C","T","E","D">>

SelectionsEq == <<"s","e","l","e","c","t","i","o","n","s","=">>

\* s has sub at position i
OccursAt(s, sub, i) ==
    /\ i >= 1
    /\ i + Len(sub) - 1 <= Len(s)
    /\ \A j \in 1 .. Len(sub) : s[i + j - 1] = sub[j]

\* sub in s
Contains(s, sub) == \E i \in 1 .. (Len(s) - Len(sub) + 1) : OccursAt(s, sub, i)

\* s.split(sep)[0]: the text before the first occurrence of sep
SplitFirst(s, sep) ==
    IF Contains(s, sep)
    THEN LET i == CHOOSE k \in 1 .. (Len(s) - Len(sep) + 1) :
                     /\ OccursAt(s, sep, k)
                     /\ \A m \in 1 .. (k - 1) : ~OccursAt(s, sep, m)
         IN  SubSeq(s, 1, i - 1)
    ELSE s

\* _redact_query
RedactQuery(url) ==
    IF Contains(url, KeyEq)
    THEN SplitFirst(url, KeyEq) \o KeyEq \o Redacted
    ELSE url

\* url = f"{TORN_BASE}{path}", path = "/section" or "/section/id_part"
RequestUrl(r) ==
    TORN_BASE \o <<"/">> \o r.section
      \o (IF r.id_part # <<>> THEN <<"/">> \o r.id_part ELSE <<>>)

\* resp.request.url: the url with params = {key, selections, extra} as its query
ResponseUrl(r, key) ==
    RequestUrl(r) \o <<"?">> \o KeyEq \o key
      \o (IF r.selections # <<>> THEN <<"&">> \o SelectionsEq \o r.selections ELSE <<>>)
      \o (IF r.extra # <<>> THEN <<"&">> \o r.extra[1] \o <<"=">> \o r.extra[2] ELSE <<>>)

\* Credentials, sections, id parts, selections and extra parameters.  A
\* missing optional argument (None) and an empty string are both <<>>: the
\* code tests them by truth value.
ApiKeys == { <<>>, <<"T","E","S","T">>, <<"1","2","3">> }

UserIds == { <<>>, <<"1","2","3">> }

Sections == { <<"u","s","e","r">>, <<"t","o","r","n">> }

IdParts == { <<>>, <<"1","2","3">> }

Selections == { <<>>, <<"b","a","r","s">> }

Extras == { <<>>, << <<"l","i","m","i","t">>, <<"5">> >> }

AllRequests ==
    [section : Sections, id_part : IdParts, selections : Selections, extra : Extras]

\* The arguments _request gets from get_user(selections="bars"); a client
\* without user_id calls _request("user", None, "bars").
Requests ==
    { [section |-> <<"u","s","e","r">>, id_part |-> user_id,
       selections |-> <<"b","a","r","s">>, extra |-> <<>>] }

(***************************************************************************)
(* The store (state/db.py)                                                 *)
(***************************************************************************)

Default == <<"d","e","f","a","u","l","t">>

KeyIds == { Default, <<"1","2","3">> }

\* datetime('now') is a text that is never empty; Null is SQL's NULL.
Now == "datetime"
Null == "NULL"

NoRow == [key |-> <<>>, disabled_at |-> Null, present |-> FALSE]

\* self.user_id or "default"
CredentialId == IF user_id # <<>> THEN user_id ELSE Default

\* A mark that clears the timestamp of a row that is already there.
MarkKeyDisabledToggling(ks, id, key) ==
    [ks EXCEPT ![id] = [key |-> key,
                        disabled_at |-> IF ks[id].present THEN Null ELSE Now,
                        present |-> TRUE]]

\* INSERT OR REPLACE INTO keys(id, key, disabled_at) VALUES(?,?,datetime('now'))
MarkKeyDisabled(ks, id, key) ==
    [ks EXCEPT ![id] = [key |-> key, disabled_at |-> Now, present |-> TRUE]]

\* A check that trusts the client's own counter instead of reading the row.
IsKeyDisabledCached(ks, id) == auth_failures >= AuthThreshold

\* SELECT disabled_at FROM keys WHERE id=?; bool(row and row[0])
IsKeyDisabled(ks, id) == ks[id].present /\ ks[id].disabled_at # Null

(***************************************************************************)
(* Responses of the upstream service                                       *)
(***************************************************************************)

\* A JSON object, with or without a member "error" that is an object
\* holding "code"; error_dict says whether that member is an object.
JsonBody(has_error, code) ==
    [json |-> TRUE, has_error |-> has_error, error_dict |-> TRUE, code |-> code, len |-> 0]

\* A body that is not JSON, of len characters.
RawBody(len) ==
    [json |-> FALSE, has_error |-> FALSE, error_dict |-> TRUE, code |-> 0, len |-> len]

\* {"error": "some text"}: the member "error" is no object.
ErrorTextBody ==
    [json |-> TRUE, has_error |-> TRUE, error_dict |-> FALSE, code |-> 0, len |-> 0]

OkBody == JsonBody(FALSE, 0)

\* {"error": {"code": c}}
ErrorBody(c) == JsonBody(TRUE, c)

\* Bodies sent with a status that the code does not treat by status alone.
Bodies ==
    {OkBody} \cup {ErrorBody(c) : c \in {1, 2, 5, 10, 11}} \cup {RawBody(3), RawBody(600)}

Responses ==
    [status : {200}, body : Bodies]
      \cup [status : {404}, body : {OkBody, ErrorBody(2)}]
      \cup [status : {429, 503}, body : {ErrorBody(5)}]
      \cup [status : {401, 403}, body : {ErrorBody(2)}]

\* What the call remembers of an exchange that ended in an exception.
NetworkFailed == [status |-> -1, body |-> OkBody]

NoResponse == [status |-> 0, body |-> OkBody]

\* _safe_json: the parsed body, or {"raw": text[:500]}
SafeJson(body) ==
    IF body.json
    THEN [raw |-> FALSE, has_error |-> body.has_error, error_dict |-> body.error_dict,
          code |-> body.code, len |-> 0]
    ELSE [raw |-> TRUE, has_error |-> FALSE, error_dict |-> TRUE, code |-> 0,
          len |-> Min(RawLimit, body.len)]

NoPayload == [raw |-> FALSE, has_error |-> FALSE, error_dict |-> TRUE, code |-> 0, len |-> 0]

NoResult == [kind |-> "none", error |-> "", status |-> 0, payload |-> NoPayload]

Returned(data) == [kind |-> "return", error |-> "", status |-> 0, payload |-> data]

Raised(error, status) == [kind |-> "raise", error |-> error, status |-> status, payload |-> NoPayload]

\* if status == 429 or 500 <= status < 600
IsTransient(status) == status = 429 \/ (500 <= status /\ status < 600)

\* A status test that knows 401 only.
IsAuthStatusOnly401(status) == status = 401

\* if status in (401, 403)
IsAuthStatus(status) == status \in {401, 403}

\* isinstance(data, dict) and data.get("error"), then code in (1, 2, 10, 11)
IsAuthPayload(data) == data.has_error /\ data.code \in {1, 2, 10, 11}

\* data["error"].get("code") on an "error" that has no get: AttributeError
ErrorUnreadable(data) == data.has_error /\ ~data.error_dict

\* A loop that gives up one attempt early.
ExhaustedEarly(attempt) == attempt >= MaxAttempts - 1

\* A loop that gives up one attempt late.
ExhaustedLate(attempt) == attempt > MaxAttempts

\* if attempt >= max_attempts
Exhausted(attempt) == attempt >= MaxAttempts

\* small_jitter with its random draw made explicit: u is the draw of
\* random.uniform(-delta, delta) in percent of delta.
SmallJitterAt(base, percent, u) == Max(0, base + (base * percent * u) \div 10000)

\* The draws of random.uniform: every twentieth of delta from -delta to
\* delta, and the nominal draw alone.
JitterDraws == { 5 * k : k \in -20 .. 20 }

NominalDraw == {0}

\* A backoff that doubles one attempt early.
BackoffDelayDoubled(attempt, u) ==
    SmallJitterAt(BaseBackoff * BackoffUnit * (2 ^ attempt), DefaultJitter, u)

\* small_jitter(base_backoff * (2 ** (attempt - 1))), in 1/BackoffUnit second
BackoffDelay(attempt, u) ==
    SmallJitterAt(BaseBackoff * BackoffUnit * (2 ^ (attempt - 1)), DefaultJitter, u)

\* The whole ticks a sleep of d/BackoffUnit seconds lasts.
BackoffTicks(d) == (d * TicksPerMinute) \div (60 * BackoffUnit)

(***************************************************************************)
(* TornClient                                                              *)
(***************************************************************************)

\* The task that makes the client's logical calls, one after another.
ClientProcs == {"t1"}

\* The locals of one _request, and what the call has done so far.
NewCall(r) ==
    [req        |-> r,
     attempt    |-> 0,
     exchanges  |-> 0,
     transients |-> 0,
     last       |-> NoResponse,
     result     |-> NoResult,
     log_lines  |-> 0,
     audit_rows |-> 0,
     logged     |-> {},
     last_logged |-> 0,
     slept      |-> 0]

NoRequest == [section |-> <<>>, id_part |-> <<>>, selections |-> <<>>, extra |-> <<>>]

\* A _log_api whose failed audit write counts as a failed attempt.
LogApiEscalating(c, url, status, sink_ok) ==
    [c EXCEPT !.log_lines = @ + 1,
              !.audit_rows = @ + (IF sink_ok THEN 1 ELSE 0),
              !.attempt = @ + (IF sink_ok THEN 0 ELSE 1),
              !.logged = @ \cup {RedactQuery(url)},
              !.last_logged = status]

\* _log_api: the log line, then log_action, whose failure is swallowed.
LogApi(c, url, status, sink_ok) ==
    [c EXCEPT !.log_lines = @ + 1,
              !.audit_rows = @ + (IF sink_ok THEN 1 ELSE 0),
              !.logged = @ \cup {RedactQuery(url)},
              !.last_logged = status]

\* A count whose read and write are split around a suspension: with another
\* exchange in flight the value written back misses an increment.
AuthStatusFailureLossy(af, ks) ==
    LET n == IF Cardinality({ q \in DOMAIN pc : pc[q] = "awaiting" }) > 1 THEN af ELSE af + 1
    IN  [auth_failures |-> n,
         keys |-> IF n >= AuthThreshold
                  THEN MarkKeyDisabled(ks, CredentialId, api_key) ELSE ks,
         marked |-> n >= AuthThreshold]

\* A count of 401/403 responses that marks the key at the third failure only.
AuthStatusFailureOnce(af, ks) ==
    [auth_failures |-> af + 1,
     keys |-> IF af + 1 = AuthThreshold
              THEN MarkKeyDisabled(ks, CredentialId, api_key) ELSE ks,
     marked |-> af + 1 = AuthThreshold]

\* A count of 401/403 responses that marks the key one failure late.
AuthStatusFailureLate(af, ks) ==
    [auth_failures |-> af + 1,
     keys |-> IF af + 1 > AuthThreshold
              THEN MarkKeyDisabled(ks, CredentialId, api_key) ELSE ks,
     marked |-> af + 1 > AuthThreshold]

\* A count of error payloads that does not mark the key at the threshold.
AuthPayloadFailureLate(af, ks) ==
    [auth_failures |-> af + 1,
     keys |-> IF af + 1 > AuthThreshold
              THEN MarkKeyDisabled(ks, CredentialId, api_key) ELSE ks,
     marked |-> af + 1 > AuthThreshold]

\* Lines 104-106: self._auth_failures += 1, mark the key at the threshold.
AuthStatusFailure(af, ks) ==
    [auth_failures |-> af + 1,
     keys |-> IF af + 1 >= AuthThreshold
              THEN MarkKeyDisabled(ks, CredentialId, api_key) ELSE ks,
     marked |-> af + 1 >= AuthThreshold]

\* Lines 114-116: the same for an error payload with an auth code.
AuthPayloadFailure(af, ks) ==
    [auth_failures |-> af + 1,
     keys |-> IF af + 1 >= AuthThreshold
              THEN MarkKeyDisabled(ks, CredentialId, api_key) ELSE ks,
     marked |-> af + 1 >= AuthThreshold]

\* The call returns or raises.
Finish(p, c) ==
    /\ call' = [call EXCEPT ![p] = c]
    /\ pc' = [pc EXCEPT ![p] = "done"]
    /\ op' = [op EXCEPT ![p] = None]
    /\ UNCHANGED limvars

\* await asyncio.sleep(small_jitter(...)); continue
Backoff(p, c, draws) ==
    /\ \E u \in draws :
          LET d == BackoffDelay(c.attempt, u) IN
          /\ call' = [call EXCEPT ![p] = [c EXCEPT !.slept = d]]
          /\ wake_at' = [wake_at EXCEPT ![p] = clock + BackoffTicks(d)]
    /\ pc' = [pc EXCEPT ![p] = "backoff"]
    /\ UNCHANGED <<op, limiter, lock, waiters, grants_odd, last_grant, window>>

\* A start of a call that reads the disabled flag before it looks at the key.
StartCallFlagFirst(p, r) ==
    /\ pc[p] \in {"idle", "done"}
    /\ IF IsKeyDisabled(keys, CredentialId)
       THEN Finish(p, [NewCall(r) EXCEPT !.result = Raised("key_disabled", 0)])
       ELSE IF api_key = <<>>
       THEN Finish(p, [NewCall(r) EXCEPT !.result = Raised("key_required", 0)])
       ELSE EnterAcquire(p, "_request", [call EXCEPT ![p] = NewCall(r)])
    /\ UNCHANGED <<clock, nacquire, clientvars>>

\* A logical call starts: the two checks, then the first limiter.acquire().
StartCall(p, r) ==
    /\ pc[p] \in {"idle", "done"}
    /\ IF api_key = <<>>
       THEN Finish(p, [NewCall(r) EXCEPT !.result = Raised("key_required", 0)])
       ELSE IF IsKeyDisabled(keys, CredentialId)
       THEN Finish(p, [NewCall(r) EXCEPT !.result = Raised("key_disabled", 0)])
       ELSE EnterAcquire(p, "_request", [call EXCEPT ![p] = NewCall(r)])
    /\ UNCHANGED <<clock, nacquire, clientvars>>

\* A network-level failure that, when it exhausts the attempts, raises
\* without the audit record.
NetworkFailureSilent(p, sinks, draws) ==
    /\ pc[p] = "awaiting"
    /\ LET c == [call[p] EXCEPT !.attempt = @ + 1, !.last = NetworkFailed]
       IN  IF Exhausted(c.attempt)
           THEN Finish(p, [c EXCEPT !.result = Raised("network", 0)])
           ELSE Backoff(p, c, draws)
    /\ streak401' = IF pc'[p] = "done" THEN 0 ELSE streak401
    /\ UNCHANGED <<clock, nacquire, api_key, user_id, auth_failures, keys,
                   nauth_status, nauth_payload, nmarks, closed, trainer>>

\* self._client.get raises: a network-level failure.
NetworkFailure(p, sinks, draws) ==
    /\ pc[p] = "awaiting"
    /\ LET c == [call[p] EXCEPT !.attempt = @ + 1, !.last = NetworkFailed]
       IN  IF Exhausted(c.attempt)
           THEN \E sink_ok \in sinks :
                   Finish(p, [LogApi(c, RequestUrl(c.req), -1, sink_ok)
                                EXCEPT !.result = Raised("network", 0)])
           ELSE Backoff(p, c, draws)
    /\ streak401' = IF pc'[p] = "done" THEN 0 ELSE streak401
    /\ UNCHANGED <<clock, nacquire, api_key, user_id, auth_failures, keys,
                   nauth_status, nauth_payload, nmarks, closed, trainer>>

\* A 429 or 5xx response: retry, or raise_for_status() when exhausted.
TransientResponse(p, resp, sink_ok, draws) ==
    /\ pc[p] = "awaiting"
    /\ IsTransient(resp.status)
    /\ LET c == [LogApi(call[p], ResponseUrl(call[p].req, api_key), resp.status, sink_ok)
                   EXCEPT !.attempt = @ + 1, !.transients = @ + 1, !.last = resp]
       IN  IF Exhausted(c.attempt)
           THEN Finish(p, [c EXCEPT !.result = Raised("http_status", resp.status)])
           ELSE Backoff(p, c, draws)
    /\ streak401' = IF pc'[p] = "done" THEN 0 ELSE streak401
    /\ UNCHANGED <<clock, nacquire, api_key, user_id, auth_failures, keys,
                   nauth_status, nauth_payload, nmarks, closed, trainer>>

\* A 401 or 403 response: count it, mark the key, raise_for_status().
AuthResponse(p, resp, sink_ok) ==
    /\ pc[p] = "awaiting"
    /\ ~IsTransient(resp.status)
    /\ IsAuthStatus(resp.status)
    /\ LET c == [LogApi(call[p], ResponseUrl(call[p].req, api_key), resp.status, sink_ok)
                   EXCEPT !.last = resp]
           a == AuthStatusFailure(auth_failures, keys)
       IN  /\ auth_failures' = a.auth_failures
           /\ keys' = a.keys
           /\ nmarks' = nmarks + (IF a.marked THEN 1 ELSE 0)
           /\ Finish(p, [c EXCEPT !.result = Raised("http_status", resp.status)])
    /\ nauth_status' = nauth_status + 1
    /\ streak401' = IF resp.status = 401 THEN streak401 + 1 ELSE 0
    /\ UNCHANGED <<clock, nacquire, api_key, user_id, nauth_payload, closed, trainer>>

\* Any other response: the payload is returned; an error payload with an
\* auth code is counted first, and reading the code of an "error" that is no
\* object raises.
OtherResponse(p, resp, sink_ok) ==
    /\ pc[p] = "awaiting"
    /\ ~IsTransient(resp.status)
    /\ ~IsAuthStatus(resp.status)
    /\ LET c == [LogApi(call[p], ResponseUrl(call[p].req, api_key), resp.status, sink_ok)
                   EXCEPT !.last = resp]
           data == SafeJson(resp.body)
           a == AuthPayloadFailure(auth_failures, keys)
       IN  /\ IF ~ErrorUnreadable(data) /\ IsAuthPayload(data)
              THEN /\ auth_failures' = a.auth_failures
                   /\ keys' = a.keys
                   /\ nmarks' = nmarks + (IF a.marked THEN 1 ELSE 0)
                   /\ nauth_payload' = nauth_payload + 1
              ELSE UNCHANGED <<auth_failures, keys, nmarks, nauth_payload>>
           /\ Finish(p, [c EXCEPT !.result = IF ErrorUnreadable(data)
                                             THEN Raised("attribute_error", 0)
                                             ELSE Returned(data)])
    /\ streak401' = 0
    /\ UNCHANGED <<clock, nacquire, api_key, user_id, nauth_status, closed, trainer>>

\* A get that still answers after the client was closed.
GetAnswersIgnoringClose(is_closed, rs) == rs

\* The answers self._client.get(url, params=params) may return: those the
\* service sends, and none once the httpx client is closed (httpx then
\* raises RuntimeError from every send).
GetAnswers(is_closed, rs) == IF is_closed THEN {} ELSE rs

\* The exchange ends, in an exception or in one of the responses rs; sinks
\* says whether the audit sink may accept (TRUE) or refuse (FALSE) a write,
\* draws which jitter draws a backoff may make.
RespondWith(p, rs, sinks, draws) ==
    \/ NetworkFailure(p, sinks, draws)
    \/ \E resp \in GetAnswers(closed, rs), sink_ok \in sinks :
          TransientResponse(p, resp, sink_ok, draws)
    \/ \E resp \in GetAnswers(closed, rs), sink_ok \in sinks :
          AuthResponse(p, resp, sink_ok)
    \/ \E resp \in GetAnswers(closed, rs), sink_ok \in sinks :
          OtherResponse(p, resp, sink_ok)

\* aclose(): await self._client.aclose(), called between logical calls.
Aclose ==
    /\ ~closed
    /\ \A p \in ClientProcs : pc[p] \in {"idle", "done"}
    /\ closed' = TRUE
    /\ UNCHANGED <<clock, limvars, pc, op, nacquire, call, api_key, user_id,
                   auth_failures, keys, nauth_status, nauth_payload, nmarks, streak401,
                   trainer>>

\* The exchange ends; the audit sink accepts every write and the backoff
\* jitter is nominal.
Respond(p) == RespondWith(p, Responses, {TRUE}, NominalDraw)

\* A retry that goes to the network on the permit of the first attempt.
BackoffWakeNoAcquire(p) ==
    /\ pc[p] = "backoff"
    /\ clock >= wake_at[p]
    /\ pc' = [pc EXCEPT ![p] = "awaiting"]
    /\ call' = [call EXCEPT ![p].exchanges = @ + 1]
    /\ UNCHANGED <<clock, limvars, op, nacquire, clientvars>>

\* The backoff sleep ends: back to the top of the loop, limiter.acquire().
BackoffWake(p) ==
    /\ pc[p] = "backoff"
    /\ clock >= wake_at[p]
    /\ EnterAcquire(p, "_request", call)
    /\ UNCHANGED <<clock, nacquire, clientvars>>

\* Another process that shares the store marks a credential disabled.
OtherProcessDisable(id) ==
    /\ ~keys[id].present
    /\ keys' = MarkKeyDisabled(keys, id, api_key)
    /\ UNCHANGED <<clock, limvars, pc, op, nacquire, call, api_key, user_id,
                   auth_failures, nauth_status, nauth_payload, nmarks, streak401,
                   closed, trainer>>

\* Constructor arguments of TornClient tried by the client specification.
RequestRates == {3}
ClientSpacings == {0, 1}

\* TornClient.__init__: capacity = min(100, max(1, max_requests_per_min)),
\* refill_rate = capacity / 60.0, _auth_failures = 0
ClientLimiter(max_requests_per_min, min_spacing, now) ==
    LET capacity == Min(CapacityCeiling, Max(1, max_requests_per_min))
    IN  NewLimiter(capacity, (capacity * TokenUnit) \div TicksPerMinute,
                   min_spacing, DefaultJitter, now)

\* No run of the trainer.
NoRun == [phase |-> "none"]

IdleTasks ==
    /\ lock = None
    /\ waiters = <<>>
    /\ pc = [p \in Procs |-> "idle"]
    /\ op = [p \in Procs |-> None]
    /\ wake_at = [p \in Procs |-> 0]
    /\ call = [p \in Procs |-> NewCall(NoRequest)]
    /\ nacquire = 0
    /\ grants_odd = FALSE
    /\ last_grant = -1
    /\ window = NoWindow

FreshStore ==
    /\ keys = [id \in KeyIds |-> NoRow]
    /\ auth_failures = 0
    /\ nauth_status = 0
    /\ nauth_payload = 0
    /\ nmarks = 0
    /\ streak401 = 0
    /\ closed = FALSE
    /\ trainer = NoRun

\* A limiter on its own, called directly by the tasks.
InitLimiter ==
    /\ clock \in 0 .. MaxStart
    /\ \E c \in Capacities, r \in RefillRates, m \in MinSpacings, j \in JitterPercents :
          limiter = NewLimiter(c, r, m, j, clock)
    /\ IdleTasks
    /\ FreshStore
    /\ api_key = <<>>
    /\ user_id = <<>>

NextLimiter ==
    \/ Tick
    \/ \E p \in Procs : CallAcquire(p)
    \/ \E p \in Procs : LockGranted(p)
    \/ \E p \in Procs : LimiterWake(p)

SpecLimiter == InitLimiter /\ [][NextLimiter]_vars

\* C1: whatever the tasks' acquire() calls and their interleaving, a grant
\* that follows another grant of the same limiter comes at least
\* min_spacing * (1 - jitter_fraction) after it.
ConsecutiveGrantsSpaced ==
    [][ (grants_odd' # grants_odd /\ last_grant >= 0)
          => (last_grant' - last_grant) * 100
                >= limiter.min_spacing * (100 - limiter.jitter) ]_vars

\* Two acquire() calls have been granted, one after the other, by a limiter
\* with a positive min_spacing and a positive jitter.
TwoGrantsSpaced ==
    /\ ~grants_odd
    /\ last_grant >= 0
    /\ limiter.min_spacing > 0
    /\ limiter.jitter > 0
    /\ limiter.last_acquire = last_grant
    /\ limiter.last_refill = last_grant
    /\ nacquire >= 2

\* C2: the token count stays within 0 .. capacity in every state, and a
\* grant debits one token from a count, as refilled, of at least one token.
TokensWithinCapacity ==
    /\ [](0 <= limiter.tokens /\ limiter.tokens <= limiter.capacity * TokenUnit)
    /\ [][ grants_odd' # grants_odd
              => LET before == Min(limiter.capacity * TokenUnit,
                                   limiter.tokens
                                     + Max(0, clock - limiter.last_refill) * limiter.refill_rate)
                 IN  before >= TokenUnit /\ limiter'.tokens = before - TokenUnit ]_vars

\* After a grant, a later pass of the loop refilled the bucket up to its
\* capacity and no further.
RefilledToCapacity ==
    /\ last_grant >= 0
    /\ limiter.last_refill > last_grant
    /\ limiter.tokens = limiter.capacity * TokenUnit

\* The tasks inside the locked section of acquire(), the sleep included.
InSection == { p \in Procs : pc[p] = "limiter_sleep" }

\* A step in which some task's acquire() returns
\* (after a wait, or at once: the call is counted and the task is idle again).
AcquireReturns ==
    \/ \E p \in Procs : pc[p] \in {"lock_wait", "limiter_sleep"} /\ pc'[p] = "idle"
    \/ nacquire' # nacquire /\ pc' = pc

\* C20: with two tasks calling acquire() on one limiter, at most one task
\* is inside the locked section (asleep in it or running it), only that
\* task's steps change the limiter while it is inside, and the steps that
\* debit the bucket or set the last-grant time are exactly the returns of
\* acquire(), each debiting one token and setting the time once.
OneCallerInSection ==
    /\ [](/\ Cardinality(InSection) <= 1
          /\ \A p \in Procs : pc[p] = "limiter_sleep" <=> lock = p)
    /\ [][ /\ \A p \in InSection : \A q \in Procs \ {p} :
                 /\ pc'[q] \in {pc[q], "lock_wait"}
                 /\ pc'[q] # pc[q] => limiter' = limiter
           /\ AcquireReturns
                 => /\ limiter'.tokens
                         = Min(limiter.capacity * TokenUnit,
                               limiter.tokens
                                 + Max(0, clock - limiter.last_refill) * limiter.refill_rate)
                             - TokenUnit
                    /\ limiter'.last_acquire = clock
                    /\ Cardinality({ p \in Procs : pc'[p] # pc[p] }) <= 1
           /\ ~AcquireReturns
                 => /\ limiter'.tokens >= limiter.tokens
                    /\ limiter'.last_acquire = limiter.last_acquire ]_vars

\* After a first grant one task sleeps inside the section, holding the
\* lock, while the other task waits for the lock.
SleeperHoldsLockOut ==
    /\ last_grant >= 0
    /\ nacquire >= 3
    /\ \E p, q \in Procs :
          /\ pc[p] = "limiter_sleep"
          /\ pc[q] = "lock_wait"
          /\ lock = p
          /\ waiters = <<q>>

\* Time advances: new calls are made up to MaxTime only, and the clock goes
\* on for as long as a task sleeping in acquire() has to wait for its wake-up
\* time, a token or the spacing (MaxWait ticks more at most).
LimiterTick ==
    TickTo(IF \E p \in Procs :
                 /\ pc[p] = "limiter_sleep"
                 /\ clock < wake_at[p] \/ ~CanGrant(Refill(limiter, clock), clock)
           THEN Min(clock + 1, MaxTime + MaxWait) ELSE MaxTime)

NextLimiterFair ==
    \/ LimiterTick
    \/ \E p \in Procs : CallAcquire(p)
    \/ \E p \in Procs : LockGranted(p)
    \/ \E p \in Procs : LimiterWake(p)

\* The event loop runs every task that can run, and time advances.
SpecLimiterFair ==
    /\ InitLimiter
    /\ [][NextLimiterFair]_vars
    /\ WF_vars(LimiterTick)
    /\ \A p \in Procs : WF_vars(LockGranted(p)) /\ WF_vars(LimiterWake(p))

\* C21: for every configuration, clamped by the constructor, and two tasks
\* calling acquire(), a task that waits in acquire() (for the lock or asleep
\* inside it) eventually leaves it, and it leaves it only by a grant.
AcquireEventuallyGranted ==
    /\ \A p \in Procs : (pc[p] \in {"lock_wait", "limiter_sleep"}) ~> (pc[p] = "idle")
    /\ [][ \A p \in Procs :
             (pc[p] \in {"lock_wait", "limiter_sleep"} /\ pc'[p] = "idle")
                => (grants_odd' # grants_odd /\ limiter'.last_acquire = clock) ]_vars

\* The third call has been granted after the clock passed MaxTime, by a
\* limiter built with a refill rate below the clamp, with nobody left waiting.
GrantedAfterLongWait ==
    /\ nacquire = MaxAcquires
    /\ \A p \in Procs : pc[p] = "idle"
    /\ clock > MaxTime
    /\ last_grant = clock
    /\ limiter.refill_rate = MinRefill
    /\ limiter.tokens < TokenUnit

\* One TornClient over a fresh store, its logical calls made one after another.
Init ==
    /\ clock = 0
    /\ \E rpm \in RequestRates, m \in ClientSpacings : limiter = ClientLimiter(rpm, m, clock)
    /\ IdleTasks
    /\ FreshStore
    /\ api_key \in {<<>>, <<"T","E","S","T">>}
    /\ user_id \in UserIds

Next ==
    \/ ClientTick
    \/ \E p \in ClientProcs : \E r \in Requests : StartCall(p, r)
    \/ \E p \in ClientProcs : Respond(p)
    \/ \E p \in ClientProcs : BackoffWake(p)
    \/ \E p \in ClientProcs : LimiterWake(p)
    \/ \E id \in KeyIds : OtherProcessDisable(id)

Spec == Init /\ [][Next]_vars

\* The step is task p entering _request: a logical call starts.
CallStarts(p) ==
    /\ pc[p] \in {"idle", "done"}
    /\ <<pc'[p], call'[p]>> # <<pc[p], call[p]>>

\* The store's row of the client's credential has disabled_at set.
FlagSet == keys[CredentialId].present /\ keys[CredentialId].disabled_at # Null

\* C3: a call whose first k answers, k < 5, were all 429 or 5xx goes on to
\* another exchange, and when the next answer is a 200 without an error
\* object the call has made exactly k + 1 exchanges and returns that
\* answer's payload.
RetriesThenReturns ==
    \A p \in ClientProcs :
        LET c == call[p] IN
        /\ ( /\ c.transients = c.attempt
             /\ c.attempt < MaxAttempts
             /\ c.last.status \in {429, 503} )
           => pc[p] \in {"backoff", "limiter_sleep", "awaiting"}
        /\ ( /\ c.transients = c.attempt
             /\ c.last.status = 200
             /\ ~(c.last.body.json /\ c.last.body.has_error) )
           => /\ c.attempt < MaxAttempts
              /\ pc[p] = "done"
              /\ c.exchanges = c.transients + 1
              /\ c.result = Returned(SafeJson(c.last.body))

\* The answers were [transient, transient, 200]: three exchanges, and the
\* payload of the 200 is returned.
TwoRetriesThenPayload ==
    \E p \in ClientProcs :
        /\ pc[p] = "done"
        /\ call[p].transients = 2
        /\ call[p].attempt = 2
        /\ call[p].exchanges = 3
        /\ call[p].last = [status |-> 200, body |-> OkBody]
        /\ call[p].result = Returned(SafeJson(OkBody))

\* C4: a call never makes more than max_attempts = 5 exchanges, network
\* failures and 429/5xx answers counted together, and a call whose five
\* answers were all 429/5xx has raised the HTTP error right after the fifth.
AtMostMaxAttempts ==
    \A p \in ClientProcs :
        LET c == call[p] IN
        /\ c.exchanges <= MaxAttempts
        /\ c.attempt <= MaxAttempts
        /\ c.transients <= c.attempt
        /\ c.exchanges <= c.attempt + 1
        /\ c.transients = MaxAttempts
             => /\ pc[p] = "done"
                /\ c.exchanges = MaxAttempts
                /\ c.result = Raised("http_status", c.last.status)

\* Five 429/5xx answers: the call is over after exactly five exchanges.
FiveTransientsRaised ==
    \E p \in ClientProcs :
        /\ pc[p] = "done"
        /\ call[p].transients = 5
        /\ call[p].exchanges = 5
        /\ call[p].result.kind = "raise"
        /\ call[p].result.error = "http_status"

\* C5: the client does not mark the credential before its third auth
\* failure; once three calls in a row have each ended in a 401 the row of
\* user_id or "default" is marked, by the third of them, and a call that
\* starts then raises the disabled error with no exchange and no permit.
ThreeUnauthorizedDisable ==
    /\ [](nauth_status + nauth_payload < 3 => nmarks = 0)
    /\ [](streak401 >= 3 => (FlagSet /\ nmarks = 1 /\ nauth_status + nauth_payload = 3))
    /\ [][ \A p \in ClientProcs :
              (streak401 >= 3 /\ CallStarts(p))
                 => /\ pc'[p] = "done"
                    /\ call'[p].result = Raised("key_disabled", 0)
                    /\ call'[p].exchanges = 0
                    /\ UNCHANGED <<limiter, grants_odd, last_grant>> ]_vars

\* Three calls in a row ended in a 401, the third marked the credential,
\* and the call after them failed with the disabled error and no exchange.
FailsFastAfterThree401 ==
    \E p \in ClientProcs :
        /\ streak401 = 3
        /\ nmarks = 1
        /\ FlagSet
        /\ pc[p] = "done"
        /\ call[p].result = Raised("key_disabled", 0)
        /\ call[p].exchanges = 0

\* C6: a call that starts while the store's flag of the credential is set,
\* whoever set it, ends at once in an error, with no permit acquired, no
\* exchange and no audit record; the flag is the one in the store.
DisabledFailsFast ==
    [][ \A p \in ClientProcs :
          (FlagSet /\ CallStarts(p))
             => /\ pc'[p] = "done"
                /\ call'[p].result.kind = "raise"
                /\ api_key # <<>> => call'[p].result = Raised("key_disabled", 0)
                /\ call'[p].exchanges = 0
                /\ call'[p].log_lines = 0
                /\ call'[p].audit_rows = 0
                /\ UNCHANGED <<limiter, grants_odd, last_grant, lock, waiters>> ]_vars

\* Another process set the flag, this client never marked anything and has
\* not seen three auth failures, and its call failed with the disabled error.
FailsFastOnForeignFlag ==
    \E p \in ClientProcs :
        /\ nmarks = 0
        /\ auth_failures < AuthThreshold
        /\ FlagSet
        /\ pc[p] = "done"
        /\ call[p].result = Raised("key_disabled", 0)
        /\ call[p].exchanges = 0
        /\ call[p].audit_rows = 0

\* C7: 401/403 answers and error payloads with code 1, 2, 10 or 11 feed one
\* counter, one each and in any order, and the credential is marked when
\* their total reaches 3; the call of a 401/403 raises, the call of such a
\* payload returns the payload.
AuthPayloadCountsAsStatus ==
    /\ [](auth_failures = nauth_status + nauth_payload)
    /\ [](nmarks = (IF nauth_status + nauth_payload >= 3
                    THEN nauth_status + nauth_payload - 2 ELSE 0))
    /\ [](nmarks > 0 => FlagSet)
    /\ [][ \A p \in ClientProcs :
              /\ nauth_status' # nauth_status
                    => /\ nauth_status' = nauth_status + 1
                       /\ nauth_payload' = nauth_payload
                       /\ call'[p].result = Raised("http_status", call'[p].last.status)
              /\ nauth_payload' # nauth_payload
                    => /\ nauth_payload' = nauth_payload + 1
                       /\ nauth_status' = nauth_status
                       /\ call'[p].last.status \notin {401, 403}
                       /\ call'[p].result = Returned(SafeJson(call'[p].last.body))
                       /\ call'[p].result.payload.code \in {1, 2, 10, 11} ]_vars

\* Both kinds of auth failure were counted, and the third of them, a 200
\* with an auth code in its payload, marked the credential and was returned.
PayloadFailureDisables ==
    \E p \in ClientProcs :
        /\ nauth_status >= 1
        /\ nauth_payload >= 1
        /\ auth_failures = 3
        /\ nmarks = 1
        /\ FlagSet
        /\ pc[p] = "done"
        /\ call[p].last.status = 200
        /\ call[p].result.kind = "return"
        /\ call[p].result.payload.has_error
        /\ call[p].result.payload.code \in {1, 2, 10, 11}

\* C14: a call on a client whose api_key is empty ends at once in the
\* key-required error, also when the disabled flag is set, with no permit,
\* no exchange, no log line or audit record and the counter and store as
\* they were.
EmptyKeyFailsFirst ==
    [][ \A p \in ClientProcs :
          (api_key = <<>> /\ CallStarts(p))
             => /\ pc'[p] = "done"
                /\ call'[p].result = Raised("key_required", 0)
                /\ call'[p].exchanges = 0
                /\ call'[p].log_lines = 0
                /\ call'[p].audit_rows = 0
                /\ UNCHANGED <<limiter, grants_odd, last_grant, lock, waiters>>
                /\ UNCHANGED <<auth_failures, keys>> ]_vars

\* A client without a key, its credential's flag set in the store: the call
\* failed with the key-required error.
EmptyKeyBeatsFlag ==
    \E p \in ClientProcs :
        /\ api_key = <<>>
        /\ FlagSet
        /\ pc[p] = "done"
        /\ call[p].result = Raised("key_required", 0)
        /\ call[p].exchanges = 0
        /\ auth_failures = 0

\* C16: the step in which a call gets a 401 or 403 ends the call: the
\* counter goes up by exactly one, the HTTP error of that status is raised,
\* and no backoff sleep, permit or exchange is added, however many retried
\* answers came before.
AuthStatusEndsCall ==
    /\ [](\A p \in ClientProcs :
            call[p].last.status \in {401, 403}
               => /\ pc[p] = "done"
                  /\ call[p].result = Raised("http_status", call[p].last.status)
                  /\ call[p].exchanges = call[p].attempt + 1)
    /\ [][ \A p \in ClientProcs :
              (pc[p] = "awaiting" /\ call'[p] # call[p]
                 /\ call'[p].last.status \in {401, 403})
                 => /\ auth_failures' = auth_failures + 1
                    /\ pc'[p] = "done"
                    /\ call'[p].exchanges = call[p].exchanges
                    /\ call'[p].attempt = call[p].attempt
                    /\ UNCHANGED <<limiter, lock, waiters, wake_at, grants_odd,
                                   last_grant, clock>> ]_vars

\* A 403 after two retried answers: the call ended there, at its third
\* exchange, with the counter at one.
ForbiddenAfterTwoRetries ==
    \E p \in ClientProcs :
        /\ pc[p] = "done"
        /\ call[p].last.status = 403
        /\ call[p].attempt = 2
        /\ call[p].exchanges = 3
        /\ call[p].result = Raised("http_status", 403)
        /\ auth_failures = 1

\* C17: the network-level failure that is the call's fifth counted failure
\* writes one audit record, of status -1, and the call raises the transport
\* error; an earlier network-level failure writes nothing and sends the call
\* to a backoff sleep and on to another attempt.
NetworkFailureExhausts ==
    /\ [](\A p \in ClientProcs :
            call[p].last.status = -1
               => IF call[p].attempt >= MaxAttempts
                  THEN /\ pc[p] = "done"
                       /\ call[p].result = Raised("network", 0)
                       /\ call[p].last_logged = -1
                       /\ call[p].exchanges = MaxAttempts
                  ELSE /\ pc[p] \in {"backoff", "limiter_sleep", "awaiting"}
                       /\ call[p].result = NoResult
                       /\ call[p].last_logged # -1)
    /\ [][ \A p \in ClientProcs :
              (pc[p] = "awaiting" /\ call'[p] # call[p] /\ call'[p].last.status = -1)
                 => /\ call'[p].attempt = call[p].attempt + 1
                    /\ IF call'[p].attempt >= MaxAttempts
                       THEN /\ pc'[p] = "done"
                            /\ call'[p].log_lines = call[p].log_lines + 1
                            /\ call'[p].audit_rows = call[p].audit_rows + 1
                       ELSE /\ pc'[p] = "backoff"
                            /\ call'[p].log_lines = call[p].log_lines
                            /\ call'[p].audit_rows = call[p].audit_rows ]_vars

\* Two retried 429/5xx answers, then three network-level failures: the call
\* raised the transport error and the last of its three records has -1.
NetworkFailureRaisedAtFifth ==
    \E p \in ClientProcs :
        /\ pc[p] = "done"
        /\ call[p].result = Raised("network", 0)
        /\ call[p].transients = 2
        /\ call[p].attempt = MaxAttempts
        /\ call[p].exchanges = MaxAttempts
        /\ call[p].audit_rows = 3
        /\ call[p].last_logged = -1

\* C8: once a call has returned a payload that is not an auth failure, the
\* client's auth-failure counter is zero.
CounterResetBySuccess ==
    \A p \in ClientProcs :
        ( /\ pc[p] = "done"
          /\ call[p].result.kind = "return"
          /\ ~(call[p].result.payload.has_error
                 /\ call[p].result.payload.code \in {1, 2, 10, 11}) )
        => auth_failures = 0

\* C9: a finished call has written as many audit records as it made
\* exchanges (the audit sink accepts every write here).
OneRecordPerAttempt ==
    \A p \in ClientProcs :
        pc[p] = "done" => call[p].audit_rows = call[p].exchanges

\* A client called with every request of AllRequests, to look at what it
\* logs; the service answers 200, 401, 429 or not at all.
UrlResponses ==
    { [status |-> 200, body |-> OkBody], [status |-> 401, body |-> ErrorBody(2)],
      [status |-> 429, body |-> ErrorBody(5)] }

InitUrl ==
    /\ clock = 0
    /\ \E rpm \in RequestRates : limiter = ClientLimiter(rpm, 0, clock)
    /\ IdleTasks
    /\ FreshStore
    /\ api_key \in ApiKeys
    /\ user_id = <<>>

NextUrl ==
    \/ ClientTick
    \/ \E p \in ClientProcs : \E r \in AllRequests : StartCall(p, r)
    \/ \E p \in ClientProcs : RespondWith(p, UrlResponses, {TRUE}, NominalDraw)
    \/ \E p \in ClientProcs : BackoffWake(p)
    \/ \E p \in ClientProcs : LimiterWake(p)

SpecUrl == InitUrl /\ [][NextUrl]_vars

\* C10: no URL that a call has logged, in the log line and in the audit
\* record, contains the value of the credential.
CredentialNeverLogged ==
    \A p \in ClientProcs :
        api_key # <<>> => \A url \in call[p].logged : ~Contains(url, api_key)

\* The client over an audit sink that may refuse any write (log_action
\* raises inside _log_api).
InitSink ==
    /\ clock = 0
    /\ \E rpm \in RequestRates : limiter = ClientLimiter(rpm, 0, clock)
    /\ IdleTasks
    /\ FreshStore
    /\ api_key = <<"T","E","S","T">>
    /\ user_id \in UserIds

NextSink ==
    \/ ClientTick
    \/ \E p \in ClientProcs : \E r \in Requests : StartCall(p, r)
    \/ \E p \in ClientProcs : RespondWith(p, Responses, BOOLEAN, NominalDraw)
    \/ \E p \in ClientProcs : BackoffWake(p)
    \/ \E p \in ClientProcs : LimiterWake(p)

SpecSink == InitSink /\ [][NextSink]_vars

\* C11: whether or not audit writes fail, what a call has done is fixed by
\* the answers it got: its attempts and exchanges, its payload or error, the
\* auth-failure counter and the disabled flag do not depend on the sink.
SinkFailureNeverEscalates ==
    /\ auth_failures = nauth_status + nauth_payload
    /\ nmarks = (IF auth_failures >= 3 THEN auth_failures - 2 ELSE 0)
    /\ FlagSet <=> auth_failures >= 3
    /\ \A p \in ClientProcs :
          LET c == call[p]
              answered == c.last.status > 0
              retried == c.last.status = -1 \/ c.last.status \in {429, 503}
          IN  /\ c.audit_rows <= c.log_lines
              /\ c.attempt <= MaxAttempts
              /\ pc[p] = "done" /\ c.result.error \notin {"key_disabled", "key_required"}
                    => /\ c.exchanges = c.attempt + (IF retried THEN 0 ELSE 1)
                       /\ retried => c.attempt = MaxAttempts
                       /\ c.log_lines = c.transients + (IF c.last.status \in {429, 503} THEN 0 ELSE 1)
                       /\ c.result =
                            (IF c.last.status = -1 THEN Raised("network", 0)
                             ELSE IF c.last.status \in {429, 503, 401, 403}
                             THEN Raised("http_status", c.last.status)
                             ELSE Returned(SafeJson(c.last.body)))
              /\ pc[p] \in {"backoff", "awaiting", "limiter_sleep"}
                    => /\ c.attempt < MaxAttempts
                       /\ c.result = NoResult
                       /\ c.log_lines = c.transients

\* A call whose audit writes all failed went through two retried answers
\* and returned the payload of the third.
ReturnedDespiteSinkFailure ==
    \E p \in ClientProcs :
        /\ pc[p] = "done"
        /\ call[p].log_lines = 3
        /\ call[p].audit_rows = 0
        /\ call[p].exchanges = 3
        /\ call[p].result = Returned(SafeJson(OkBody))

\* A client that makes one logical call, before or after aclose().  Time
\* passes, sleeps end and an exchange ends, so these steps are taken whenever
\* they stay possible; time goes on past MaxClientTime for as long as a task
\* asleep in acquire() cannot be granted yet.
InitClose ==
    /\ clock = 0
    /\ \E rpm \in RequestRates, m \in ClientSpacings : limiter = ClientLimiter(rpm, m, clock)
    /\ IdleTasks
    /\ FreshStore
    /\ api_key \in {<<>>, <<"T","E","S","T">>}
    /\ user_id \in UserIds

StartOneCall(p) ==
    /\ pc[p] = "idle"
    /\ \E r \in Requests : StartCall(p, r)

CloseTick ==
    TickTo(IF \E p \in ClientProcs :
                 pc[p] = "limiter_sleep" /\ ~CanGrant(Refill(limiter, clock), clock)
           THEN clock + 1 ELSE MaxClientTime)

NextClose ==
    \/ CloseTick
    \/ Aclose
    \/ \E p \in ClientProcs : StartOneCall(p)
    \/ \E p \in ClientProcs : Respond(p)
    \/ \E p \in ClientProcs : BackoffWake(p)
    \/ \E p \in ClientProcs : LimiterWake(p)
    \/ \E id \in KeyIds : OtherProcessDisable(id)

SpecClose ==
    /\ InitClose
    /\ [][NextClose]_vars
    /\ WF_vars(CloseTick)
    /\ \A p \in ClientProcs :
          WF_vars(Respond(p)) /\ WF_vars(BackoffWake(p)) /\ WF_vars(LimiterWake(p))

\* C12: a logical call made after aclose() never returns a payload and makes
\* at most 5 exchanges, and once started it always comes to its end, an
\* error.
UseAfterCloseFails ==
    /\ [][ \A p \in ClientProcs :
              (closed /\ pc'[p] = "done" /\ <<pc'[p], call'[p]>> # <<pc[p], call[p]>>)
                 => /\ call'[p].result.kind = "raise"
                    /\ call'[p].exchanges <= MaxAttempts ]_vars
    /\ \A p \in ClientProcs :
          (closed /\ pc[p] \notin {"idle", "done"})
             ~> (pc[p] = "done" /\ call[p].result.kind = "raise")

\* The call after aclose() made five exchanges, each of which raised, and
\* ended in the transport error.
ClosedClientCallRaised ==
    \E p \in ClientProcs :
        /\ closed
        /\ pc[p] = "done"
        /\ call[p].exchanges = MaxAttempts
        /\ call[p].attempt = MaxAttempts
        /\ call[p].result = Raised("network", 0)

\* Clients that come and go over one store: the process restarts with a new
\* TornClient (fresh counter, fresh limiter) and other processes mark
\* credentials, again and again.
LatchResponses ==
    { [status |-> 200, body |-> OkBody], [status |-> 200, body |-> ErrorBody(2)],
      [status |-> 401, body |-> ErrorBody(2)], [status |-> 429, body |-> ErrorBody(5)] }

\* The process starts again: TornClient.__init__ over the same store.
Restart ==
    /\ \E rpm \in RequestRates : limiter' = ClientLimiter(rpm, 0, clock)
    /\ lock' = None
    /\ waiters' = <<>>
    /\ pc' = [p \in Procs |-> "idle"]
    /\ op' = [p \in Procs |-> None]
    /\ wake_at' = [p \in Procs |-> 0]
    /\ call' = [p \in Procs |-> NewCall(NoRequest)]
    /\ grants_odd' = FALSE
    /\ last_grant' = -1
    /\ window' = NoWindow
    /\ auth_failures' = 0
    /\ nauth_status' = 0
    /\ nauth_payload' = 0
    /\ nmarks' = 0
    /\ streak401' = 0
    /\ closed' = FALSE
    /\ api_key' \in {<<>>, <<"T","E","S","T">>}
    /\ user_id' \in UserIds
    /\ UNCHANGED <<clock, nacquire, keys, trainer>>

\* Another process calls mark_key_disabled, whatever the row holds.
OtherProcessMark(id) ==
    /\ \E k \in ApiKeys \ {<<>>} : keys' = MarkKeyDisabled(keys, id, k)
    /\ UNCHANGED <<clock, limvars, pc, op, nacquire, call, api_key, user_id,
                   auth_failures, nauth_status, nauth_payload, nmarks, streak401,
                   closed, trainer>>

InitLatch ==
    /\ clock = 0
    /\ \E rpm \in RequestRates : limiter = ClientLimiter(rpm, 0, clock)
    /\ IdleTasks
    /\ FreshStore
    /\ api_key \in {<<>>, <<"T","E","S","T">>}
    /\ user_id \in UserIds

NextLatch ==
    \/ ClientTick
    \/ Restart
    \/ \E p \in ClientProcs : \E r \in Requests : StartCall(p, r)
    \/ \E p \in ClientProcs : RespondWith(p, LatchResponses, {TRUE}, NominalDraw)
    \/ \E p \in ClientProcs : BackoffWake(p)
    \/ \E p \in ClientProcs : LimiterWake(p)
    \/ \E id \in KeyIds : OtherProcessMark(id)

SpecLatch == InitLatch /\ [][NextLatch]_vars

\* C13: no step turns a set disabled flag back to unset, whether a call
\* ends, the key is marked again or the process restarts; the table holds
\* one row per marked id, and is_key_disabled reports every row disabled.
DisabledFlagLatches ==
    /\ [](\A id \in KeyIds : keys[id].present => IsKeyDisabled(keys, id))
    /\ [][ \A id \in KeyIds :
              IsKeyDisabled(keys, id)
                 => /\ IsKeyDisabled(keys', id)
                    /\ keys'[id].disabled_at = keys[id].disabled_at ]_vars

\* A client with a fresh counter finds the flag of its credential set, last
\* written by another process with another key value, and fails fast.
FlagSurvivesRestart ==
    \E p \in ClientProcs :
        /\ auth_failures = 0
        /\ nmarks = 0
        /\ IsKeyDisabled(keys, CredentialId)
        /\ keys[CredentialId].key = <<"1","2","3">>
        /\ pc[p] = "done"
        /\ call[p].result = Raised("key_disabled", 0)

(***************************************************************************)
(* Trainer (trainer.py)                                                    *)
(***************************************************************************)

DEFAULT_ENERGY_THRESHOLD == 90

DEFAULT_NERVE_THRESHOLD == 30

\* The longest crime catalogue tried.
MaxCrimes == 2

\* Python's `x or y` on numbers; a missing key (None) and 0 are both 0 here,
\* the code only tests them by truth value.
Or(x, y) == IF x # 0 THEN x ELSE y

\* A bar of the user payload: bars[name], with or without "current".
Bars(values) == [present : {TRUE}, current : values] \cup {[present |-> FALSE, current |-> 0]}

\* bars.get(name, {}).get("current", 0)
Current(bar) == IF bar.present THEN bar.current ELSE 0

\* The crimes of a catalogue; money_min and money_max stand for the keys
\* money_min/min_cash and money_max/max_cash.
Crimes ==
    { [nerve |-> 5, nerve_required |-> 0, nerveCost |-> 0, money_min |-> 1000, money_max |-> 3000, value |-> 0],
      [nerve |-> 10, nerve_required |-> 0, nerveCost |-> 0, money_min |-> 2500, money_max |-> 2600, value |-> 0],
      [nerve |-> 0, nerve_required |-> 0, nerveCost |-> 0, money_min |-> 0, money_max |-> 0, value |-> 100],
      [nerve |-> 0, nerve_required |-> 0, nerveCost |-> 2, money_min |-> 0, money_max |-> 0, value |-> 7],
      [nerve |-> -1, nerve_required |-> 3, nerveCost |-> 0, money_min |-> 0, money_max |-> 500, value |-> 0] }

\* The payload of get_crime_info: its "crimes", a dict (in iteration order)
\* or something else.
Catalogues ==
    { [is_dict |-> FALSE, crimes |-> <<>>] }
      \cup { [is_dict |-> TRUE, crimes |-> cs] :
                cs \in UNION { [1 .. n -> Crimes] : n \in 0 .. MaxCrimes } }

\* The payload of get_user("cooldowns"): cooldowns.crimes, or no such key.
Cooldowns == { [present |-> FALSE, crimes |-> 0], [present |-> TRUE, crimes |-> 0],
               [present |-> TRUE, crimes |-> 60] }

\* nerve = c.get("nerve") or c.get("nerve_required") or c.get("nerveCost")
NerveOf(c) == Or(Or(c.nerve, c.nerve_required), c.nerveCost)

\* Twice the cash: (min_cash + max_cash) / 2 if either is set, else value or 0
Cash2(c) ==
    IF c.money_min # 0 \/ c.money_max # 0 THEN c.money_min + c.money_max ELSE 2 * c.value

NoBest == [found |-> FALSE, id |-> 0, nerve |-> 0, cash2 |-> 0]

\* current["cash_per_nerve"] > best["cash_per_nerve"], both nerves positive
Better(cur, best) == cur.cash2 * best.nerve > best.cash2 * cur.nerve

\* The loop of _best_crime_by_cash_per_nerve from the i-th crime on.
RECURSIVE BestFrom(_, _, _)
BestFrom(crimes, i, best) ==
    IF i > Len(crimes) THEN best
    ELSE LET n == NerveOf(crimes[i])
             cur == [found |-> TRUE, id |-> i, nerve |-> n, cash2 |-> Cash2(crimes[i])]
         IN  IF n = 0 \/ n <= 0
             THEN BestFrom(crimes, i + 1, best)
             ELSE BestFrom(crimes, i + 1,
                           IF ~best.found \/ Better(cur, best) THEN cur ELSE best)

\* _best_crime_by_cash_per_nerve
BestCrimeByCashPerNerve(payload) ==
    IF ~payload.is_dict THEN NoBest ELSE BestFrom(payload.crimes, 1, NoBest)

\* _crimes_allowed: cd.get("crimes", 0) == 0
CrimesAllowed(cooldowns) == (IF cooldowns.present THEN cooldowns.crimes ELSE 0) = 0

\* A gym test that needs more energy than the threshold.
GymDueStrict(energy, threshold) == energy > threshold

\* if energy >= self.energy_threshold
GymDue(energy, threshold) == energy >= threshold

\* if nerve >= self.nerve_threshold and _crimes_allowed(cooldowns)
CrimeDue(nerve, threshold, cooldowns) == nerve >= threshold /\ CrimesAllowed(cooldowns)

\* recs, as decide_and_recommend builds it.
Recommendations(t) ==
    LET energy == Current(t.energy)
        nerve == Current(t.nerve)
        best == BestCrimeByCashPerNerve(t.catalogue)
    IN  (IF GymDue(energy, t.energy_threshold)
         THEN << [type |-> "gym", slot |-> 1, points |-> Min(energy, 150), crime |-> 0] >>
         ELSE <<>>)
        \o (IF CrimeDue(nerve, t.nerve_threshold, t.cooldowns) /\ best.found
            THEN << [type |-> "crime", slot |-> 0, points |-> 0, crime |-> best.id] >>
            ELSE <<>>)

\* One run of decide_and_recommend over what the client fetched; a client
\* call or a store write (do_train, save_snapshot) may raise instead.
DecideAndRecommend ==
    /\ trainer.phase = "ready"
    /\ \E raises \in BOOLEAN :
          trainer' = IF raises
                     THEN [trainer EXCEPT !.phase = "raised"]
                     ELSE [trainer EXCEPT !.phase = "returned",
                                          !.recs = Recommendations(trainer)]
    /\ UNCHANGED <<clock, limvars, pc, op, nacquire, call, api_key, user_id,
                   auth_failures, keys, nauth_status, nauth_payload, nmarks, streak401,
                   closed>>

InitTrainer ==
    /\ clock = 0
    /\ \E rpm \in RequestRates : limiter = ClientLimiter(rpm, 0, clock)
    /\ IdleTasks
    /\ keys = [id \in KeyIds |-> NoRow]
    /\ auth_failures = 0
    /\ nauth_status = 0
    /\ nauth_payload = 0
    /\ nmarks = 0
    /\ streak401 = 0
    /\ closed = FALSE
    /\ api_key = <<"T","E","S","T">>
    /\ user_id = <<"1","2","3">>
    /\ trainer \in [phase : {"ready"},
                     energy : Bars({0, 89, 90, 100, 200}),
                     nerve : Bars({29, 30, 50}),
                     energy_threshold : {DEFAULT_ENERGY_THRESHOLD, 100},
                     nerve_threshold : {DEFAULT_NERVE_THRESHOLD},
                     cooldowns : Cooldowns,
                     catalogue : Catalogues,
                     recs : {<<>>}]

NextTrainer == DecideAndRecommend

SpecTrainer == InitTrainer /\ [][NextTrainer]_vars

\* C15: a run that returns recommends "gym" exactly when energy.current is
\* at least energy_threshold, and "crime" exactly when nerve.current is at
\* least nerve_threshold, the crimes cooldown is 0 and some crime of the
\* catalogue has a positive nerve cost.
RecommendsGymAndCrime ==
    trainer.phase = "returned"
      => /\ (\E i \in 1 .. Len(trainer.recs) : trainer.recs[i].type = "gym")
              <=> Current(trainer.energy) >= trainer.energy_threshold
         /\ (\E i \in 1 .. Len(trainer.recs) : trainer.recs[i].type = "crime")
              <=> /\ Current(trainer.nerve) >= trainer.nerve_threshold
                  /\ (trainer.cooldowns.present => trainer.cooldowns.crimes = 0)
                  /\ trainer.catalogue.is_dict
                  /\ \E i \in 1 .. Len(trainer.catalogue.crimes) :
                        NerveOf(trainer.catalogue.crimes[i]) > 0

\* Energy exactly at the threshold, nerve above its threshold, no cooldown
\* and a catalogue of two crimes: both recommendations are returned.
GymAndCrimeRecommended ==
    /\ trainer.phase = "returned"
    /\ Current(trainer.energy) = trainer.energy_threshold
    /\ Len(trainer.catalogue.crimes) = 2
    /\ Len(trainer.recs) = 2
    /\ trainer.recs[1].type = "gym"
    /\ trainer.recs[2].type = "crime"
    /\ trainer.recs[2].crime = 2

\* A client that makes one logical call, its backoff sleeps drawn over the
\* whole jitter band.
InitBackoff ==
    /\ clock = 0
    /\ \E rpm \in RequestRates : limiter = ClientLimiter(rpm, 0, clock)
    /\ IdleTasks
    /\ FreshStore
    /\ api_key = <<"T","E","S","T">>
    /\ user_id \in UserIds

NextBackoff ==
    \/ ClientTick
    \/ \E p \in ClientProcs : StartOneCall(p)
    \/ \E p \in ClientProcs : RespondWith(p, UrlResponses, {TRUE}, JitterDraws)
    \/ \E p \in ClientProcs : BackoffWake(p)
    \/ \E p \in ClientProcs : LimiterWake(p)

SpecBackoff == InitBackoff /\ [][NextBackoff]_vars

\* C18: the sleep after the n-th counted failure of a call, n = 1..4, is
\* between 0.85 * 2^(n-1) and 1.15 * 2^(n-1) seconds, and the failure that
\* exhausts the attempts is followed by no sleep.
BackoffWithinJitterBand ==
    /\ [](\A p \in ClientProcs :
            LET n == call[p].attempt IN
            /\ pc[p] = "backoff"
                 => /\ n \in 1 .. 4
                    /\ 85 * (2 ^ (n - 1)) <= call[p].slept
                    /\ call[p].slept <= 115 * (2 ^ (n - 1))
            /\ n >= 5 => pc[p] = "done")
    /\ [][ \A p \in ClientProcs :
              (pc[p] = "awaiting" /\ call'[p].attempt >= 5)
                 => /\ pc'[p] = "done"
                    /\ call'[p].slept = call[p].slept
                    /\ wake_at'[p] = wake_at[p] ]_vars

\* The sleep after the fourth failure was the longest of its band, 9.2 s,
\* and the fifth failure ended the call.
LongestFourthBackoff ==
    \E p \in ClientProcs :
        /\ pc[p] = "done"
        /\ call[p].attempt = 5
        /\ call[p].slept = 920

\* A client whose answers carry every kind of body, with statuses the code
\* does not treat by status alone (200, 404) among them.
PayloadResponses ==
    [status : {200, 404},
     body : {OkBody, ErrorBody(5), ErrorBody(2), RawBody(3), RawBody(600), ErrorTextBody}]
      \cup { [status |-> 429, body |-> ErrorBody(5)], [status |-> 401, body |-> ErrorBody(2)] }

InitPayload ==
    /\ clock = 0
    /\ \E rpm \in RequestRates : limiter = ClientLimiter(rpm, 0, clock)
    /\ IdleTasks
    /\ FreshStore
    /\ api_key = <<"T","E","S","T">>
    /\ user_id \in UserIds

NextPayload ==
    \/ ClientTick
    \/ \E p \in ClientProcs : StartOneCall(p)
    \/ \E p \in ClientProcs : RespondWith(p, PayloadResponses, {TRUE}, NominalDraw)
    \/ \E p \in ClientProcs : BackoffWake(p)
    \/ \E p \in ClientProcs : LimiterWake(p)

SpecPayload == InitPayload /\ [][NextPayload]_vars

\* C19: a call whose answer has a status other than 429, 5xx, 401 and 403
\* is over with that exchange and has returned a payload: the parsed body,
\* or {"raw": the first 500 characters} of a body that does not parse.
OtherStatusReturnsPayload ==
    \A p \in ClientProcs :
        call[p].last.status \in {200, 404}
           => /\ pc[p] = "done"
              /\ call[p].exchanges = call[p].attempt + 1
              /\ call[p].result.kind = "return"
              /\ call[p].result.payload.raw = ~call[p].last.body.json
              /\ call[p].result.payload.len = Min(500, call[p].last.body.len)

\* One TornClient shared by two tasks whose logical calls overlap: each task
\* makes its calls one after another, the two tasks interleave at the awaits.
SharedResponses ==
    { [status |-> 200, body |-> OkBody], [status |-> 200, body |-> ErrorBody(2)],
      [status |-> 401, body |-> ErrorBody(2)], [status |-> 429, body |-> ErrorBody(5)] }

InitShared ==
    /\ clock = 0
    /\ \E rpm \in RequestRates : limiter = ClientLimiter(rpm, 0, clock)
    /\ IdleTasks
    /\ FreshStore
    /\ api_key = <<"T","E","S","T">>
    /\ user_id = <<>>

NextShared ==
    \/ ClientTick
    \/ \E p \in Procs : \E r \in Requests : StartCall(p, r)
    \/ \E p \in Procs : RespondWith(p, SharedResponses, {TRUE}, NominalDraw)
    \/ \E p \in Procs : BackoffWake(p)
    \/ \E p \in Procs : LockGranted(p)
    \/ \E p \in Procs : LimiterWake(p)

SpecShared == InitShared /\ [][NextShared]_vars

\* The answer that ended p's exchange is an auth failure: 401 or 403, or a
\* payload with an error object whose code is 1, 2, 10 or 11.
EndedInAuthFailure(c) ==
    \/ c.last.status \in {401, 403}
    \/ /\ c.last.status > 0
       /\ c.last.status \notin {401, 403, 429}
       /\ c.last.status < 500
       /\ c.last.body.json /\ c.last.body.has_error /\ c.last.body.error_dict
       /\ c.last.body.code \in {1, 2, 10, 11}

\* C22: with two tasks' calls overlapping on one client, every step that
\* classifies an answer as an auth failure adds exactly one to the auth-failure
\* counter, no other step changes it, and the counter equals the number of
\* auth failures classified so far.
NoAuthIncrementLost ==
    /\ [](auth_failures = nauth_status + nauth_payload)
    /\ [][ \E p \in Procs :
             /\ \A q \in Procs \ {p} : call'[q] = call[q]
             /\ auth_failures'
                  = auth_failures
                     + (IF pc[p] = "awaiting" /\ pc'[p] = "done" /\ EndedInAuthFailure(call'[p])
                        THEN 1 ELSE 0) ]_vars

\* Four auth failures counted: the fourth came from a call that was already
\* past its disabled check when the other task's call counted the third and
\* marked the key.
FourthFailureFromOverlap ==
    /\ auth_failures = AuthThreshold + 1
    /\ nauth_status >= 1
    /\ nauth_payload >= 1
    /\ IsKeyDisabled(keys, CredentialId)
    /\ \A p \in Procs : pc[p] = "done" /\ EndedInAuthFailure(call[p])

\* C23: a task is in an exchange only after a grant of the client's limiter
\* made for that exchange: the step that starts an exchange, the first of a
\* call or a retry, debits one token and sets the last-grant time, it starts
\* one exchange only, and a call's exchanges are one more than its failed
\* attempts while it is in one.
ExchangeHasOwnGrant ==
    /\ [](\A p \in Procs :
            pc[p] = "awaiting" => call[p].exchanges = call[p].attempt + 1)
    /\ [][ \A p \in Procs :
             (pc'[p] = "awaiting" /\ pc[p] # "awaiting")
                \/ call'[p].exchanges > call[p].exchanges
             => /\ pc'[p] = "awaiting" /\ pc[p] # "awaiting"
                /\ call'[p].exchanges
                     = (IF pc[p] \in {"idle", "done"} THEN 0 ELSE call[p].exchanges) + 1
                /\ grants_odd' # grants_odd
                /\ limiter'.last_acquire = clock
                /\ limiter'.tokens
                     = Min(limiter.capacity * TokenUnit,
                           limiter.tokens
                             + Max(0, clock - limiter.last_refill) * limiter.refill_rate)
                         - TokenUnit
                /\ \A q \in Procs \ {p} : pc'[q] = pc[q] /\ call'[q] = call[q] ]_vars

\* Before any refill a call is in its third exchange, after two retries, and
\* the bucket of three tokens is empty: one token went into each exchange.
ThirdExchangeThirdToken ==
    /\ limiter.last_refill = 0
    /\ limiter.capacity = 3
    /\ limiter.tokens = 0
    /\ \E p \in Procs :
          /\ pc[p] = "awaiting"
          /\ call[p].exchanges = 3
          /\ call[p].transients = 2
          /\ \A q \in Procs \ {p} : pc[q] = "idle"

\* C24: no step taken while the credential's disabled flag is set in the
\* store puts a task into a network exchange, whether the call started
\* before or after the flag was set.
NoDispatchWhileDisabled ==
    [][ \A p \in ClientProcs :
          FlagSet => ~(pc'[p] = "awaiting" /\ pc[p] # "awaiting") ]_vars

\* C25: in every state between steps of the client a counter of 3 or more
\* comes with the credential's flag set in the store; the step that raises
\* the counter to 3 or more writes the credential's row in that same step,
\* and so does every later auth failure; a step that leaves the counter
\* below 3 writes nothing.
CounterAtThresholdImpliesFlag ==
    /\ [](auth_failures >= 3 => FlagSet)
    /\ [][ auth_failures' # auth_failures
             => /\ auth_failures' = auth_failures + 1
                /\ IF auth_failures' >= 3
                   THEN /\ nmarks' = nmarks + 1
                        /\ keys'[CredentialId]
                             = [key |-> api_key, disabled_at |-> Now, present |-> TRUE]
                   ELSE nmarks' = nmarks /\ keys' = keys ]_vars

\* A fourth auth failure, a 401 of a call that overlapped the third, marked
\* the credential a second time.
FourthFailureMarksAgain ==
    /\ auth_failures = 4
    /\ nmarks = 2
    /\ FlagSet
    /\ \E p \in Procs :
          /\ pc[p] = "done"
          /\ call[p].result = Raised("http_status", 401)
          /\ \A q \in Procs \ {p} : pc[q] = "done" /\ call[q].result.kind = "return"

(***************************************************************************)
(* Grants of one limiter in a time window                                  *)
(***************************************************************************)

\* An observer begins to count the grants, at any moment of the limiter's
\* life; the window runs from this moment to every later state.
OpenWindow ==
    /\ ~window.open
    /\ window' = [open |-> TRUE, start |-> clock, grants |-> 0]
    /\ UNCHANGED <<clock, limiter, lock, waiters, wake_at, grants_odd, last_grant,
                   pc, op, nacquire, call, clientvars>>

NextWindow ==
    \/ Tick
    \/ OpenWindow
    \/ \E p \in Procs : CallAcquire(p)
    \/ \E p \in Procs : LockGranted(p)
    \/ \E p \in Procs : LimiterWake(p)

SpecWindow == InitLimiter /\ [][NextWindow]_vars

\* C26: the grants a limiter issues in a window of T ticks, wherever the
\* window begins, number at most capacity + T * refill rate (in token units:
\* grants * TokenUnit <= capacity * TokenUnit + T * units refilled per tick).
GrantsInWindowBounded ==
    window.open
       => window.grants * TokenUnit
             <= limiter.capacity * TokenUnit + (clock - window.start) * limiter.refill_rate

\* A window of two ticks, opened after an earlier grant, in which a limiter
\* of capacity 1 and the lowest refill rate issued two grants: one from the
\* bucket and one from the refill, as many as the bound allows.
WindowBoundAttained ==
    /\ window.open
    /\ window.start > 0
    /\ clock - window.start = 2
    /\ window.grants = 2
    /\ nacquire = 3
    /\ \A p \in Procs : pc[p] = "idle"
    /\ limiter.capacity = 1
    /\ limiter.refill_rate = MinRefill

====
